---- MODULE Spec2Model ----
(***************************************************************************)
(* Model of the chunking and retrieval engine of retrieval_comparision     *)
(* (backend/app/chunking.py, backend/app/retrieval.py, backend/app/main.py).*)
(*                                                                         *)
(* A text is a sequence of one-character strings.  Python's str and list   *)
(* primitives (strip, split, join, slicing) are operators computed as      *)
(* Python computes them.  Three specifications share the variables:        *)
(*   SpecFixed  the while loop of chunk_fixed_size, one iteration a step;  *)
(*   SpecChunk  the chunking functions applied to a bounded set of texts;  *)
(*   Spec       the host (main.py) and the retrieval module with its       *)
(*              process-wide caches.                                       *)
(***************************************************************************)
EXTENDS Integers, Sequences, FiniteSets, TLC

VARIABLES
    \* ---- chunk_fixed_size, run statement by statement (SpecFixed)
    fx_pc,            \* "idle" | "loop" | "done" | "error"
    fx_text,          \* argument text
    fx_size,          \* argument chunk_size
    fx_overlap,       \* argument overlap
    fx_i,             \* local i
    fx_chunks,        \* local chunks
    fx_result,        \* the returned list
    \* ---- one call of a chunking function (SpecChunk)
    ck_text,          \* the document handed to the call
    ck_call,          \* which function was called, with which parameters
    ck_result,        \* the list it returned
    \* ---- host and retrieval module (Spec)
    document_store,   \* main.document_store
    embedding_model,  \* retrieval._embedding_model: "None" | "loaded"
    chunk_embeddings, \* retrieval._chunk_embeddings: None or the rows
    bm25_index,       \* retrieval._bm25_index: None or the index
    st_installed,     \* sentence_transformers / sklearn importable
    bm25_installed,   \* rank_bm25 importable
    last,             \* the latest retrieval call: its arguments, the globals
                      \* before it, what it scored against and returned
    prev,             \* the retrieval call before it, in brief
    nops,             \* operations performed so far
    since_upload,     \* exchanges stored since the latest accepted upload
    encodes,          \* invocations of the provider on a chunk sequence
    status,           \* HTTP status of the latest host operation (0: none yet)
    \* ---- calls of the retrieval functions on one corpus (SpecRetrieve)
    rt_chunks,        \* argument chunks
    rt_query,         \* argument query
    rt_k,             \* argument k
    rt_call,          \* the latest call: the function and lambda_param
    rt_positions,     \* the positions (1-based) of the chunks it selected
    rt_out,           \* the string it returned
    rt_first,         \* what the first retrieve_top_k call returned, and after
                      \* how many other calls
    rt_n,             \* calls of the other retrieval functions made so far
    \* ---- chunk_semantic, run statement by statement (SpecSemantic)
    sm_pc,            \* "idle" | "loop" | "done"
    sm_args,          \* text, similarity_threshold, min_chunk_size, max_chunk_size
    sm_provider,      \* the embedding provider: "ok" | "missing" | "throws"
    sm_sims,          \* local similarities (in hundredths), as the provider's
                      \* vectors give them
    sm_sentences,     \* local sentences
    sm_i,             \* position in zip(sentences[1:], similarities), from 1
    sm_chunks,        \* local chunks
    sm_current_chunk, \* local current_chunk
    sm_current_size,  \* local current_size
    sm_sizes,         \* current_size at each chunks.append
    sm_result         \* the returned list

fxvars == <<fx_pc, fx_text, fx_size, fx_overlap, fx_i, fx_chunks, fx_result>>
ckvars == <<ck_text, ck_call, ck_result>>
hostvars == <<document_store, embedding_model, chunk_embeddings, bm25_index,
              st_installed, bm25_installed, last, prev, nops, encodes, status,
              since_upload>>
rtvars == <<rt_chunks, rt_query, rt_k, rt_call, rt_positions, rt_out, rt_first,
            rt_n>>
smvars == <<sm_pc, sm_args, sm_provider, sm_sims, sm_sentences, sm_i, sm_chunks,
            sm_current_chunk, sm_current_size, sm_sizes, sm_result>>
vars == <<fxvars, ckvars, hostvars, rtvars, smvars>>

(***************************************************************************)
(* Bounds of the model.                                                    *)
(***************************************************************************)
MaxTokens == 4      \* a SpecChunk text is at most this many tokens long
MaxParam == 3       \* largest chunk_size / max_chunk_size / overlap drawn
MaxIter == 4        \* iterations of the fixed-size loop that are followed
MaxFixedLen == 3    \* longest text handed to the fixed-size loop
MaxOps == 2         \* host / retrieval operations in one run
MaxHostOps == 3     \* requests to the host in one run of SpecHost
DocLen == 2500      \* length of the document chunked with the default parameters
MaxChunks == 3      \* longest chunk sequence of SpecRetrieve
MaxK == 3           \* largest k of SpecRetrieve
MaxSemTokens == 5   \* a SpecSemantic text is at most this many tokens long
MaxCalls == 1       \* calls other than retrieve_top_k in one run of SpecRetrieve

(***************************************************************************)
(* Python primitives.                                                      *)
(***************************************************************************)
NL == "\n"

\* str.isspace on one character (the whitespace of the modelled alphabet)
IsSpace(c) == c \in {" ", NL}

RECURSIVE LStrip(_)
LStrip(s) ==
    IF s = <<>> THEN <<>>
    ELSE IF IsSpace(Head(s)) THEN LStrip(Tail(s)) ELSE s

RECURSIVE RStrip(_)
RStrip(s) ==
    IF s = <<>> THEN <<>>
    ELSE IF IsSpace(s[Len(s)]) THEN RStrip(SubSeq(s, 1, Len(s) - 1)) ELSE s

\* str.strip()
Strip(s) == RStrip(LStrip(s))

\* str.startswith
StartsWith(s, p) == Len(s) >= Len(p) /\ SubSeq(s, 1, Len(p)) = p

\* `p in s` for strings
Contains(s, p) ==
    \E i \in 1..(Len(s) - Len(p) + 1) : SubSeq(s, i, i + Len(p) - 1) = p

RECURSIVE SplitOn(_, _, _)
SplitOn(s, sep, cur) ==
    IF s = <<>> THEN <<cur>>
    ELSE IF StartsWith(s, sep)
         THEN <<cur>> \o SplitOn(SubSeq(s, Len(sep) + 1, Len(s)), sep, <<>>)
         ELSE SplitOn(Tail(s), sep, Append(cur, Head(s)))

\* str.split(sep) for a non-empty separator: leftmost, non-overlapping,
\* empty pieces kept
Split(s, sep) == SplitOn(s, sep, <<>>)

RECURSIVE Join(_, _)
\* sep.join(list)
Join(sep, list) ==
    IF list = <<>> THEN <<>>
    ELSE IF Len(list) = 1 THEN list[1]
    ELSE list[1] \o sep \o Join(sep, Tail(list))

RECURSIVE Flatten(_)
\* ''.join(list)
Flatten(list) == IF list = <<>> THEN <<>> ELSE Head(list) \o Flatten(Tail(list))

Min(a, b) == IF a < b THEN a ELSE b
Max(a, b) == IF a > b THEN a ELSE b

\* a slice bound as Python normalises it: negative counts from the end,
\* then clamped to 0..len
SliceIndex(n, len) == IF n < 0 THEN Max(n + len, 0) ELSE Min(n, len)

\* s[lo:hi] with 0-based Python bounds
PySlice(s, lo, hi) ==
    LET a == SliceIndex(lo, Len(s))
        b == SliceIndex(hi, Len(s))
    IN  IF a >= b THEN <<>> ELSE SubSeq(s, a + 1, b)

\* [c for c in list if c.strip()]
DropBlank(list) == SelectSeq(list, LAMBDA c : Strip(c) # <<>>)

(***************************************************************************)
(* chunking.py: chunk_fixed_size.                                          *)
(***************************************************************************)
DefaultChunkSize == 1000
DefaultOverlap == 200
DefaultMaxChunkSize == 1000

\* the body of the while loop with a stride that ignores the overlap
FixedBodyNoOverlap(text, chunk_size, overlap, i, chunks) ==
    [i |-> i + chunk_size,
     chunks |-> Append(chunks, PySlice(text, i, i + chunk_size))]

\* the body of the while loop: end = i + chunk_size;
\* chunks.append(text[i:end]); i += chunk_size - overlap
FixedBody(text, chunk_size, overlap, i, chunks) ==
    [i |-> i + chunk_size - overlap,
     chunks |-> Append(chunks, PySlice(text, i, i + chunk_size))]

RECURSIVE FixedLoop(_, _, _, _, _)
\* while i < len(text): body.  Evaluated only where the loop ends
\* (chunk_size > overlap, or an empty text); SpecFixed follows the loop
\* iteration by iteration for every parameter.
FixedLoop(text, chunk_size, overlap, i, chunks) ==
    IF i < Len(text)
    THEN LET b == FixedBody(text, chunk_size, overlap, i, chunks)
         IN  FixedLoop(text, chunk_size, overlap, b.i, b.chunks)
    ELSE chunks

chunk_fixed_size(text, chunk_size, overlap) ==
    DropBlank(FixedLoop(text, chunk_size, overlap, 0, <<>>))

(***************************************************************************)
(* chunking.py: chunk_recursive.                                           *)
(***************************************************************************)
Separators == << <<NL, NL>>, <<NL>>, <<".", " ">>, <<" ">> >>

RECURSIVE recursive_split(_, _, _)

\* FlushBuffer without the recursion into a buffer that is still too large
FlushBufferNoRecursion(chunks, current_chunk, remaining_separators, max_chunk_size) ==
    Append(chunks, Strip(current_chunk))

\* a buffer leaves the loop: it is split further when it is still too
\* large, and appended stripped otherwise
FlushBuffer(chunks, current_chunk, remaining_separators, max_chunk_size) ==
    IF Len(current_chunk) > max_chunk_size
    THEN chunks \o recursive_split(current_chunk, remaining_separators,
                                   max_chunk_size)
    ELSE Append(chunks, Strip(current_chunk))

\* the test that ends a buffer: current_chunk and
\* len(current_chunk) + len(separator) + len(split) > max_chunk_size
BufferFull(current_chunk, separator, split, max_chunk_size) ==
    /\ current_chunk # <<>>
    /\ Len(current_chunk) + Len(separator) + Len(split) > max_chunk_size

\* what the buffer becomes when a full buffer has been flushed and `split`
\* starts the next one
StartBuffer(separator, split) == split

RECURSIVE SplitLoop(_, _, _, _, _, _)
\* for split in splits: ...
SplitLoop(splits, chunks, current_chunk, separator, remaining_separators, max_chunk_size) ==
    IF splits = <<>> THEN [chunks |-> chunks, current_chunk |-> current_chunk]
    ELSE LET split == Head(splits)
         IN  IF BufferFull(current_chunk, separator, split, max_chunk_size)
             THEN SplitLoop(Tail(splits),
                            FlushBuffer(chunks, current_chunk,
                                        remaining_separators, max_chunk_size),
                            StartBuffer(separator, split),
                            separator, remaining_separators, max_chunk_size)
             ELSE SplitLoop(Tail(splits), chunks,
                            IF current_chunk # <<>>
                            THEN current_chunk \o separator \o split
                            ELSE split,
                            separator, remaining_separators, max_chunk_size)

recursive_split(text, separators, max_chunk_size) ==
    IF separators = <<>> \/ Len(text) <= max_chunk_size
    THEN IF Strip(text) # <<>> THEN <<text>> ELSE <<>>
    ELSE LET separator == Head(separators)
             remaining_separators == Tail(separators)
             r == SplitLoop(Split(text, separator), <<>>, <<>>, separator,
                            remaining_separators, max_chunk_size)
             chunks == IF r.current_chunk # <<>>
                       THEN FlushBuffer(r.chunks, r.current_chunk,
                                        remaining_separators, max_chunk_size)
                       ELSE r.chunks
         IN  DropBlank(chunks)

chunk_recursive(text, max_chunk_size) ==
    recursive_split(text, Separators, max_chunk_size)

(***************************************************************************)
(* chunking.py: chunk_document_based.                                      *)
(***************************************************************************)
Delimiter == <<"-", "-", "-">>

\* length of the run of '#' that starts at position p
HashRun(s, p) ==
    CHOOSE n \in 0..(Len(s) - p + 1) :
        /\ \A j \in p..(p + n - 1) : s[j] = "#"
        /\ (p + n > Len(s) \/ s[p + n] # "#")

\* length of the run of whitespace that starts at position p
SpaceRun(s, p) ==
    CHOOSE n \in 0..(Len(s) - p + 1) :
        /\ \A j \in p..(p + n - 1) : IsSpace(s[j])
        /\ (p + n > Len(s) \/ ~IsSpace(s[p + n]))

\* length of the run of characters other than newline that starts at p
LineRun(s, p) ==
    CHOOSE n \in 0..(Len(s) - p + 1) :
        /\ \A j \in p..(p + n - 1) : s[j] # NL
        /\ (p + n > Len(s) \/ s[p + n] = NL)

\* the regular expression \n#{1,6}\s+.+\n matched at position p: the
\* position of the match's last character, 0 when there is no match.
\* '#{1,6}' must take the whole run of hashes (what follows it has to be
\* whitespace); '\s+' is greedy and gives characters back until '.+'
\* (greedy, never a newline) is followed by a newline.
HeaderEnd(s, p) ==
    IF p > Len(s) \/ s[p] # NL THEN 0
    ELSE LET h == HashRun(s, p + 1)
             w == SpaceRun(s, p + 1 + h)
             \* the numbers of whitespace characters '\s+' may keep
             ok == {j \in 1..w :
                      LET q == p + 1 + h + j
                          n == LineRun(s, q)
                      IN  n >= 1 /\ q + n <= Len(s)}
         IN  IF h < 1 \/ h > 6 \/ ok = {} THEN 0
             ELSE LET j == CHOOSE x \in ok : \A y \in ok : y <= x
                      q == p + 1 + h + j
                  IN  q + LineRun(s, q)

\* re.search(header_pattern, text)
HasHeader(text) == \E p \in 1..Len(text) : HeaderEnd(text, p) > 0

RECURSIVE ReSplitFrom(_, _, _)
ReSplitFrom(s, p, start) ==
    IF p > Len(s) THEN <<SubSeq(s, start, Len(s))>>
    ELSE LET e == HeaderEnd(s, p)
         IN  IF e > 0
             THEN <<SubSeq(s, start, p - 1), SubSeq(s, p, e)>>
                  \o ReSplitFrom(s, e + 1, e + 1)
             ELSE ReSplitFrom(s, p + 1, start)

\* re.split(r'(\n#{1,6}\s+.+\n)', text): the pieces between the matches
\* and, the pattern being a group, the matches themselves
ReSplitHeaders(text) == ReSplitFrom(text, 1, 1)

RECURSIVE HeaderLoop(_, _, _)
\* for i, part in enumerate(parts): ...
HeaderLoop(parts, chunks, current_chunk) ==
    IF parts = <<>> THEN [chunks |-> chunks, current_chunk |-> current_chunk]
    ELSE LET part == Head(parts)
         IN  IF HeaderEnd(part, 1) > 0
             THEN HeaderLoop(Tail(parts),
                             IF current_chunk # <<>>
                             THEN Append(chunks, Strip(current_chunk))
                             ELSE chunks,
                             part)
             ELSE HeaderLoop(Tail(parts), chunks, current_chunk \o part)

\* [chunk.strip() for chunk in text.split(sep) if chunk.strip()]
SplitStripped(text, sep) ==
    LET pieces == Split(text, sep)
        kept == SelectSeq(pieces, LAMBDA c : Strip(c) # <<>>)
    IN  [i \in 1..Len(kept) |-> Strip(kept[i])]

\* chunk_document_based looking for headings before the delimiter
chunk_document_based_headings_first(text, delimiter) ==
    IF HasHeader(text)
    THEN LET r == HeaderLoop(ReSplitHeaders(text), <<>>, <<>>)
             chunks == IF r.current_chunk # <<>>
                       THEN Append(r.chunks, Strip(r.current_chunk))
                       ELSE r.chunks
         IN  SelectSeq(chunks, LAMBDA c : c # <<>>)
    ELSE IF Contains(text, delimiter) THEN SplitStripped(text, delimiter)
    ELSE SplitStripped(text, <<NL, NL>>)

chunk_document_based(text, delimiter) ==
    IF Contains(text, delimiter) THEN SplitStripped(text, delimiter)
    ELSE IF HasHeader(text)
    THEN LET r == HeaderLoop(ReSplitHeaders(text), <<>>, <<>>)
             chunks == IF r.current_chunk # <<>>
                       THEN Append(r.chunks, Strip(r.current_chunk))
                       ELSE r.chunks
         IN  SelectSeq(chunks, LAMBDA c : c # <<>>)
    ELSE SplitStripped(text, <<NL, NL>>)

(***************************************************************************)
(* chunking.py: chunk_semantic and _split_into_sentences.  Similarities    *)
(* are in hundredths.                                                      *)
(***************************************************************************)
DefaultThreshold == 50

\* the pattern (?<=[.!?])\s+ matches at p: p starts a run of whitespace
\* and follows one of . ! ?
SentenceBreak(s, p) ==
    /\ p > 1 /\ p <= Len(s)
    /\ IsSpace(s[p])
    /\ s[p - 1] \in {".", "!", "?"}

RECURSIVE SentenceSplitFrom(_, _, _)
\* re.split(sentence_pattern, text) from position p, the piece in progress
\* starting at `start`
SentenceSplitFrom(s, p, start) ==
    IF p > Len(s) THEN <<SubSeq(s, start, Len(s))>>
    ELSE IF SentenceBreak(s, p)
    THEN LET e == p + SpaceRun(s, p)
         IN  <<SubSeq(s, start, p - 1)>> \o SentenceSplitFrom(s, e, e)
    ELSE SentenceSplitFrom(s, p + 1, start)

\* _split_into_sentences(text)
split_into_sentences(text) ==
    LET pieces == SentenceSplitFrom(text, 1, 1)
        kept == SelectSeq(pieces, LAMBDA c : Strip(c) # <<>>)
    IN  [i \in 1..Len(kept) |-> Strip(kept[i])]

\* a split on the similarity and the size alone
ShouldStartChunkAnySize(similarity, similarity_threshold, current_size, sentence_len, min_chunk_size, max_chunk_size) ==
    similarity < similarity_threshold \/ current_size + sentence_len > max_chunk_size

\* should_split and current_size >= min_chunk_size
ShouldStartChunk(similarity, similarity_threshold, current_size, sentence_len, min_chunk_size, max_chunk_size) ==
    /\ \/ similarity < similarity_threshold
       \/ current_size + sentence_len > max_chunk_size
    /\ current_size >= min_chunk_size

(***************************************************************************)
(* chunking.py: chunk_agentic and the dispatcher chunk_document.           *)
(***************************************************************************)
chunk_agentic(text) == chunk_recursive(text, DefaultMaxChunkSize)

chunk_document(text, strategy) ==
    CASE strategy = "fixed" ->
            chunk_fixed_size(text, DefaultChunkSize, DefaultOverlap)
      [] strategy = "recursive" -> chunk_recursive(text, DefaultMaxChunkSize)
      [] strategy = "document" -> chunk_document_based(text, Delimiter)
      [] strategy = "semantic" -> <<text>>
      [] strategy = "agentic" -> <<text>>
      [] OTHER -> <<text>>

(***************************************************************************)
(* retrieval.py: the lexical strategies (no state).                        *)
(***************************************************************************)
DefaultK == 3

\* '\n---\n', the separator of the context string
ContextSep == <<NL, "-", "-", "-", NL>>

\* str.lower() on one character of the modelled alphabet
Lower(c) == CASE c = "A" -> "a" [] c = "B" -> "b" [] OTHER -> c

LowerStr(s) == [i \in 1..Len(s) |-> Lower(s[i])]

RECURSIVE WsSplitOn(_, _)
WsSplitOn(s, cur) ==
    IF s = <<>> THEN (IF cur = <<>> THEN <<>> ELSE <<cur>>)
    ELSE IF IsSpace(Head(s))
         THEN (IF cur = <<>> THEN <<>> ELSE <<cur>>) \o WsSplitOn(Tail(s), <<>>)
         ELSE WsSplitOn(Tail(s), Append(cur, Head(s)))

\* text.lower().split(): the words between runs of whitespace
Words(s) == WsSplitOn(LowerStr(s), <<>>)

\* set(text.lower().split())
WordSet(s) == { Words(s)[i] : i \in 1..Len(Words(s)) }

\* len(query_words.intersection(chunk_words))
OverlapScore(query, chunk) == Cardinality(WordSet(query) \cap WordSet(chunk))

\* a descending sort that puts the later of two equal scores first
SortDescUnstable(scores) ==
    LET n == Len(scores)
        before(j, i) == scores[j] > scores[i] \/ (scores[j] = scores[i] /\ j > i)
        pos(i) == 1 + Cardinality({j \in 1..n : before(j, i)})
    IN  [p \in 1..n |-> CHOOSE i \in 1..n : pos(i) = p]

\* list.sort(key=score, reverse=True): descending, equal scores in their
\* original order.  The result lists the positions 1..n.
SortDescStable(scores) ==
    LET n == Len(scores)
        before(j, i) == scores[j] > scores[i] \/ (scores[j] = scores[i] /\ j < i)
        pos(i) == 1 + Cardinality({j \in 1..n : before(j, i)})
    IN  [p \in 1..n |-> CHOOSE i \in 1..n : pos(i) = p]

\* numpy.argsort(scores): ascending; equal scores keep their order (the
\* arrays here are far below the size where numpy leaves insertion sort)
ArgSort(scores) ==
    LET n == Len(scores)
        before(j, i) == scores[j] < scores[i] \/ (scores[j] = scores[i] /\ j < i)
        pos(i) == 1 + Cardinality({j \in 1..n : before(j, i)})
    IN  [p \in 1..n |-> CHOOSE i \in 1..n : pos(i) = p]

Reverse(s) == [i \in 1..Len(s) |-> s[Len(s) + 1 - i]]

\* [chunks[i] for i in indices]
Pick(chunks, indices) == [p \in 1..Len(indices) |-> chunks[indices[p]]]

\* the positions of the chunks of scored_chunks[:k] after the sort
TopKPositions(chunks, query, k) ==
    LET scores == [i \in 1..Len(chunks) |-> OverlapScore(query, chunks[i])]
    IN  PySlice(SortDescStable(scores), 0, k)

\* the chunks retrieve_top_k keeps: scored_chunks[:k] after the sort
TopKChunks(chunks, query, k) == Pick(chunks, TopKPositions(chunks, query, k))

retrieve_top_k(chunks, query, k) == Join(ContextSep, TopKChunks(chunks, query, k))

\* lambda_param = LambdaNum / LambdaDen
LambdaNum == 1
LambdaDen == 2

\* the MMR score of candidate i against the selected positions, as the
\* fraction num / den (den > 0):
\*   lambda * relevance - (1 - lambda) * max_similarity
\* with similarity = |words(i) & words(s)| / max(|words(i)|, 1)
MmrScore(chunks, query, selected, i, lnum, lden) ==
    LET cw == WordSet(chunks[i])
        q == Max(Cardinality(cw), 1)
        inter(j) == Cardinality(cw \cap WordSet(chunks[selected[j]]))
        p == IF selected = <<>> THEN 0
             ELSE CHOOSE x \in {inter(j) : j \in 1..Len(selected)} :
                      \A j \in 1..Len(selected) : inter(j) <= x
    IN  [num |-> lnum * OverlapScore(query, chunks[i]) * q - (lden - lnum) * p,
         den |-> lden * q]

\* scores.index(max(scores)): the first position of `scores` whose score no
\* other exceeds; a score is a fraction [num, den]
FirstBest(scores) ==
    CHOOSE b \in 1..Len(scores) :
        /\ \A j \in 1..Len(scores) :
               scores[j].num * scores[b].den <= scores[b].num * scores[j].den
        /\ \A j \in 1..(b - 1) :
               scores[j].num * scores[b].den < scores[b].num * scores[j].den

\* list.pop(idx) leaves the list without position idx
RemoveAt(s, idx) == [i \in 1..(Len(s) - 1) |-> IF i < idx THEN s[i] ELSE s[i + 1]]

RECURSIVE MmrLoop(_, _, _, _, _, _, _)
\* while len(selected) < k and remaining: ...
MmrLoop(chunks, query, k, lnum, lden, selected, remaining) ==
    IF Len(selected) < k /\ remaining # <<>>
    THEN LET mmr_scores == [p \in 1..Len(remaining) |->
                               MmrScore(chunks, query, selected, remaining[p],
                                        lnum, lden)]
             best_idx == FirstBest(mmr_scores)
         IN  MmrLoop(chunks, query, k, lnum, lden,
                     Append(selected, remaining[best_idx]),
                     RemoveAt(remaining, best_idx))
    ELSE selected

\* the positions retrieve_mmr selects, in the order it selects them
MmrSelected(chunks, query, k, lnum, lden) ==
    LET all == [i \in 1..Len(chunks) |-> i]
        relevance_scores == [i \in 1..Len(chunks) |->
                                [num |-> OverlapScore(query, chunks[i]),
                                 den |-> 1]]
        first_idx == FirstBest(relevance_scores)
    IN  MmrLoop(chunks, query, k, lnum, lden, <<all[first_idx]>>,
                RemoveAt(all, first_idx))

retrieve_mmr(chunks, query, k, lnum, lden) ==
    IF chunks = <<>> THEN <<>>
    ELSE Join(ContextSep, Pick(chunks, MmrSelected(chunks, query, k, lnum, lden)))

\* the context of the chunk at position i without the chunk that follows it
ExpandedContextNoNext(chunks, i) ==
    Join(<<" ">>, (IF i > 1 THEN <<chunks[i - 1]>> ELSE <<>>) \o <<chunks[i]>>)

\* ' '.join(context_parts) for the chunk at position i (1-based)
ExpandedContext(chunks, i) ==
    Join(<<" ">>, (IF i > 1 THEN <<chunks[i - 1]>> ELSE <<>>)
                  \o <<chunks[i]>>
                  \o (IF i < Len(chunks) THEN <<chunks[i + 1]>> ELSE <<>>))

retrieve_parent_document(chunks, query, k) ==
    LET top == TopKPositions(chunks, query, k)
    IN  Join(ContextSep, [p \in 1..Len(top) |-> ExpandedContext(chunks, top[p])])

(***************************************************************************)
(* The external capabilities retrieval.py consumes.  They are libraries,   *)
(* not code of the repository: each is a deterministic function of its     *)
(* input, computed in integers.                                            *)
(***************************************************************************)
RECURSIVE SumSeq(_)
SumSeq(s) == IF s = <<>> THEN 0 ELSE Head(s) + SumSeq(Tail(s))

CountIn(s, x) == Cardinality({i \in 1..Len(s) : s[i] = x})

\* SentenceTransformer.encode on one text: a fixed-length vector
Embed(text) ==
    <<CountIn(LowerStr(text), "a"), CountIn(LowerStr(text), "b"), Len(text)>>

\* _embedding_model.encode(chunks): one vector per chunk, in order
Encode(chunks) ==
    [none |-> FALSE, rows |-> [i \in 1..Len(chunks) |-> Embed(chunks[i])]]

\* the value None of _chunk_embeddings and of _bm25_index
NoEmbeddings == [none |-> TRUE, rows |-> <<>>]
NoIndex == [none |-> TRUE, doc_freqs |-> <<>>]

Dot(u, v) == SumSeq([i \in 1..Len(u) |-> u[i] * v[i]])

\* sklearn's cosine_similarity of two vectors, in hundredths, rounded down
Cosine(u, v) ==
    LET norms == Dot(u, u) * Dot(v, v)
        d2 == 10000 * Dot(u, v) * Dot(u, v)
    IN  IF norms = 0 THEN 0
        ELSE CHOOSE r \in 0..100 :
                /\ r * r * norms <= d2
                /\ r = 100 \/ (r + 1) * (r + 1) * norms > d2

\* cosine_similarity(query_embedding, chunk_embeddings)[0]
Similarities(query, embeddings) ==
    [i \in 1..Len(embeddings) |-> Cosine(Embed(query), embeddings[i])]

\* BM25Okapi(tokenized_chunks): the index keeps one entry per chunk
BuildIndex(chunks) ==
    [none |-> FALSE,
     doc_freqs |-> [i \in 1..Len(chunks) |-> Words(chunks[i])]]

\* _bm25_index.get_scores(tokenized_query): per indexed document, the sum
\* over the query's tokens of a weight that grows with the token's
\* frequency in the document and falls with the number of documents
\* holding it
Bm25Scores(index, query) ==
    LET docs == index.doc_freqs
        n == Len(docs)
        df(t) == Cardinality({i \in 1..n : CountIn(docs[i], t) > 0})
        w(i, t) == (n - df(t) + 1) * ((50 * CountIn(docs[i], t))
                                      \div (2 * CountIn(docs[i], t) + 3))
        q == Words(query)
    IN  [i \in 1..n |-> SumSeq([j \in 1..Len(q) |-> w(i, q[j])])]

(***************************************************************************)
(* retrieval.py: retrieve_semantic and retrieve_hybrid, which read and     *)
(* write the module's globals.  m is the record of the three globals,      *)
(* env what the call meets: st / bm (the libraries can be imported), enc   *)
(* ("none": the embedding provider works, "all": every call of it throws), *)
(* bm25_throws (every call of the BM25 library throws).                    *)
(* The result holds the globals after the call, the strategy that produced *)
(* the context (path), the vectors and the index the scores were computed  *)
(* from, the number of corpus-embedding invocations, and the context.      *)
(***************************************************************************)
AlphaNum == 1
AlphaDen == 2

\* (scores - scores.min()) / (scores.max() - scores.min() + 1e-10), in
\* hundredths: all 0 when the scores are equal
Normalize(scores) ==
    LET lo == CHOOSE x \in {scores[i] : i \in 1..Len(scores)} :
                  \A i \in 1..Len(scores) : x <= scores[i]
        hi == CHOOSE x \in {scores[i] : i \in 1..Len(scores)} :
                  \A i \in 1..Len(scores) : x >= scores[i]
    IN  [i \in 1..Len(scores) |->
            IF hi = lo THEN 0 ELSE ((scores[i] - lo) * 100) \div (hi - lo)]

\* [chunks[i] for i in np.argsort(scores)[-k:][::-1]]
TopByScore(chunks, scores, k) ==
    LET order == ArgSort(scores)
    IN  Pick(chunks, Reverse(PySlice(order, 0 - k, Len(order))))

\* the except branches that end in retrieve_top_k
KeywordFallback(m, chunks, query, k, encoded) ==
    [m |-> m, path |-> "top-k", emb_used |-> NoEmbeddings, bm25_used |-> NoIndex,
     encoded |-> encoded, out |-> retrieve_top_k(chunks, query, k)]

\* EmbeddingsStale without the comparison of the lengths
EmbeddingsStaleNoneOnly(m, chunks) == m.emb.none

\* `_chunk_embeddings is None or len(_chunk_embeddings) != len(chunks)`
EmbeddingsStale(m, chunks) == m.emb.none \/ Len(m.emb.rows) # Len(chunks)

\* `_bm25_index is None or len(_bm25_index.doc_freqs) != len(chunks)`
IndexStale(m, chunks) ==
    m.bm25.none \/ Len(m.bm25.doc_freqs) # Len(chunks)

retrieve_semantic(m, env, chunks, query, k) ==
    IF ~env.st
    THEN \* ImportError
         KeywordFallback(m, chunks, query, k, 0)
    ELSE IF m.model = "None" /\ env.enc = "all"
    THEN \* SentenceTransformer(...) throws
         KeywordFallback(m, chunks, query, k, 0)
    ELSE LET m1 == [m EXCEPT !.model = "loaded"]
             stale == EmbeddingsStale(m1, chunks)
             n == IF stale THEN 1 ELSE 0
         IN  IF stale /\ env.enc = "all"
             THEN \* encode(chunks) throws
                  KeywordFallback(m1, chunks, query, k, n)
             ELSE LET m2 == IF stale THEN [m1 EXCEPT !.emb = Encode(chunks)]
                                     ELSE m1
                  IN  IF env.enc # "none"
                      THEN \* encode([query]) throws
                           KeywordFallback(m2, chunks, query, k, n)
                      ELSE IF m2.emb.rows = <<>>
                      THEN \* cosine_similarity rejects an array of 0 rows
                           KeywordFallback(m2, chunks, query, k, n)
                      ELSE [m |-> m2, path |-> "semantic",
                            emb_used |-> m2.emb, bm25_used |-> NoIndex,
                            encoded |-> n,
                            out |-> Join(ContextSep,
                                         TopByScore(chunks,
                                             Similarities(query, m2.emb.rows),
                                             k))]

\* the except ImportError branch ending in retrieve_top_k
HybridImportFallbackKeyword(m, env, chunks, query, k) ==
    KeywordFallback(m, chunks, query, k, 0)

\* the except ImportError branch of retrieve_hybrid
HybridImportFallback(m, env, chunks, query, k) ==
    retrieve_semantic(m, env, chunks, query, k)

\* the except Exception branch of retrieve_hybrid
HybridErrorFallback(m, chunks, query, k, encoded) ==
    KeywordFallback(m, chunks, query, k, encoded)

\* alpha * semantic_scores + (1 - alpha) * bm25_scores, times AlphaDen
HybridScores(query, embeddings, index) ==
    LET sem == Normalize(Similarities(query, embeddings))
        lex == Normalize(Bm25Scores(index, query))
    IN  [i \in 1..Len(sem) |-> AlphaNum * sem[i] + (AlphaDen - AlphaNum) * lex[i]]

retrieve_hybrid(m, env, chunks, query, k) ==
    IF ~env.st \/ ~env.bm
    THEN HybridImportFallback(m, env, chunks, query, k)
    ELSE IF m.model = "None" /\ env.enc = "all"
    THEN HybridErrorFallback(m, chunks, query, k, 0)
    ELSE LET m1 == [m EXCEPT !.model = "loaded"]
             stale == EmbeddingsStale(m1, chunks)
             n == IF stale THEN 1 ELSE 0
         IN  IF stale /\ env.enc = "all"
             THEN HybridErrorFallback(m1, chunks, query, k, n)
             ELSE LET m2 == IF stale THEN [m1 EXCEPT !.emb = Encode(chunks)]
                                     ELSE m1
                      rebuild == IndexStale(m2, chunks)
                  IN  IF rebuild /\ (env.bm25_throws \/ chunks = <<>>)
                      THEN \* BM25Okapi(...) throws; it divides by the
                           \* corpus size, so it throws on no chunks
                           HybridErrorFallback(m2, chunks, query, k, n)
                      ELSE LET m3 == IF rebuild
                                     THEN [m2 EXCEPT !.bm25 = BuildIndex(chunks)]
                                     ELSE m2
                           IN  IF env.enc # "none" \/ m3.emb.rows = <<>>
                                  \/ env.bm25_throws
                               THEN \* encode([query]), cosine_similarity
                                    \* or get_scores throws
                                    HybridErrorFallback(m3, chunks, query, k, n)
                               ELSE [m |-> m3, path |-> "hybrid",
                                     emb_used |-> m3.emb,
                                     bm25_used |-> m3.bm25,
                                     encoded |-> n,
                                     out |-> Join(ContextSep,
                                                TopByScore(chunks,
                                                  HybridScores(query, m3.emb.rows,
                                                               m3.bm25), k))]

\* a strategy that touches no global
Stateless(m, path, out) ==
    [m |-> m, path |-> path, emb_used |-> NoEmbeddings, bm25_used |-> NoIndex,
     encoded |-> 0, out |-> out]

retrieve_chunks(m, env, chunks, query, strategy, k) ==
    CASE strategy = "top-k" ->
            Stateless(m, "top-k", retrieve_top_k(chunks, query, k))
      [] strategy = "semantic" -> retrieve_semantic(m, env, chunks, query, k)
      [] strategy = "hybrid" -> retrieve_hybrid(m, env, chunks, query, k)
      [] strategy = "mmr" ->
            Stateless(m, "mmr",
                      retrieve_mmr(chunks, query, k, LambdaNum, LambdaDen))
      [] strategy = "parent" ->
            Stateless(m, "parent", retrieve_parent_document(chunks, query, k))
      [] OTHER -> Stateless(m, "top-k", retrieve_top_k(chunks, query, k))

(***************************************************************************)
(* SpecChunk: one chunking call on a text drawn from a bounded set.        *)
(***************************************************************************)
\* the texts are the concatenations of at most MaxTokens of these pieces
Tokens == { <<"a">>, <<" ">>, <<".">>, <<NL>>, <<"-", "-", "-">>,
            <<NL, "#", " ", "a", NL>> }

Texts == { Flatten(ts) : ts \in UNION { [1..n -> Tokens] : n \in 0..MaxTokens } }

\* the names the host may hand to chunk_document, and one it does not know
StrategyNames == {"fixed", "recursive", "document", "semantic", "agentic",
                  "other"}

NoCall == [fn |-> "none", strategy |-> "", size |-> 0, overlap |-> 0]

ChunkIdle == ck_text = <<>> /\ ck_call = NoCall /\ ck_result = <<>>

FixedIdle ==
    /\ fx_pc = "idle" /\ fx_text = <<>> /\ fx_size = 0 /\ fx_overlap = 0
    /\ fx_i = 0 /\ fx_chunks = <<>> /\ fx_result = <<>>

\* chunk_document(text, strategy)
CallChunkDocument ==
    \E strategy \in StrategyNames :
        /\ ck_call = NoCall
        /\ ck_call' = [fn |-> "chunk_document", strategy |-> strategy,
                       size |-> 0, overlap |-> 0]
        /\ ck_result' = chunk_document(ck_text, strategy)
        /\ UNCHANGED <<ck_text, fxvars, hostvars, rtvars, smvars>>

\* chunk_fixed_size(text, chunk_size, overlap) with a positive stride
CallChunkFixedSize ==
    \E chunk_size \in 1..MaxParam : \E overlap \in 0..(chunk_size - 1) :
        /\ ck_call = NoCall
        /\ ck_call' = [fn |-> "chunk_fixed_size", strategy |-> "",
                       size |-> chunk_size, overlap |-> overlap]
        /\ ck_result' = chunk_fixed_size(ck_text, chunk_size, overlap)
        /\ UNCHANGED <<ck_text, fxvars, hostvars, rtvars, smvars>>

\* chunk_recursive(text, max_chunk_size)
CallChunkRecursive ==
    \E max_chunk_size \in 1..MaxParam :
        /\ ck_call = NoCall
        /\ ck_call' = [fn |-> "chunk_recursive", strategy |-> "",
                       size |-> max_chunk_size, overlap |-> 0]
        /\ ck_result' = chunk_recursive(ck_text, max_chunk_size)
        /\ UNCHANGED <<ck_text, fxvars, hostvars, rtvars, smvars>>

\* chunk_document_based(text)
CallChunkDocumentBased ==
    /\ ck_call = NoCall
    /\ ck_call' = [fn |-> "chunk_document_based", strategy |-> "",
                   size |-> 0, overlap |-> 0]
    /\ ck_result' = chunk_document_based(ck_text, Delimiter)
    /\ UNCHANGED <<ck_text, fxvars, hostvars, rtvars, smvars>>

\* chunk_agentic(text)
CallChunkAgentic ==
    /\ ck_call = NoCall
    /\ ck_call' = [fn |-> "chunk_agentic", strategy |-> "",
                   size |-> 0, overlap |-> 0]
    /\ ck_result' = chunk_agentic(ck_text)
    /\ UNCHANGED <<ck_text, fxvars, hostvars, rtvars, smvars>>

(***************************************************************************)
(* SpecFixed: chunk_fixed_size followed through its while loop, for every  *)
(* chunk_size and overlap, a non-positive stride included.                 *)
(***************************************************************************)
FixedTexts == UNION { [1..n -> {"a", " "}] : n \in 0..MaxFixedLen }

\* the call: chunks = []; i = 0.  The function checks none of its
\* parameters, so no call ends in pc = "error".
FixedCall ==
    \E text \in FixedTexts, chunk_size \in 1..MaxParam,
       overlap \in 0..MaxParam :
        /\ fx_pc = "idle"
        /\ fx_pc' = "loop"
        /\ fx_text' = text
        /\ fx_size' = chunk_size
        /\ fx_overlap' = overlap
        /\ fx_i' = 0
        /\ fx_chunks' = <<>>
        /\ UNCHANGED <<fx_result, ckvars, hostvars, rtvars, smvars>>

\* chunk_document(text, 'fixed') on a document of DocLen characters:
\* chunk_fixed_size(text, chunk_size=1000, overlap=200)
FixedCallDefault ==
    /\ fx_pc = "idle"
    /\ fx_pc' = "loop"
    /\ fx_text' = [p \in 1..DocLen |-> "a"]
    /\ fx_size' = DefaultChunkSize
    /\ fx_overlap' = DefaultOverlap
    /\ fx_i' = 0
    /\ fx_chunks' = <<>>
    /\ UNCHANGED <<fx_result, ckvars, hostvars, rtvars, smvars>>

\* one iteration of `while i < len(text)` (followed MaxIter times)
FixedIterate ==
    /\ fx_pc = "loop"
    /\ fx_i < Len(fx_text)
    /\ Len(fx_chunks) < MaxIter
    /\ LET b == FixedBody(fx_text, fx_size, fx_overlap, fx_i, fx_chunks)
       IN  fx_i' = b.i /\ fx_chunks' = b.chunks
    /\ UNCHANGED <<fx_pc, fx_text, fx_size, fx_overlap, fx_result, ckvars,
                   hostvars, rtvars, smvars>>

\* the loop condition fails: return [chunk for chunk in chunks if chunk.strip()]
FixedReturn ==
    /\ fx_pc = "loop"
    /\ ~(fx_i < Len(fx_text))
    /\ fx_pc' = "done"
    /\ fx_result' = DropBlank(fx_chunks)
    /\ UNCHANGED <<fx_text, fx_size, fx_overlap, fx_i, fx_chunks, ckvars,
                   hostvars, rtvars, smvars>>

(***************************************************************************)
(* Spec: the host (main.py) and the retrieval module.                      *)
(***************************************************************************)
HistoryLimit == 20

\* documents the host is sent
DocTexts == { <<"a", "-", "-", "-", "A", " ", "b">>,
              <<"a", " ", "b">> }

\* chunk sequences retrieve_chunks is called with directly
ChunkSeqs == { <<>>,
               << <<"a">> >>,
               << <<"A", " ", "b">> >>,
               << <<"a">>, <<"A", " ", "b">> >>,
               << <<"A", " ", "b">>, <<"a">> >> }

Queries == { <<"a">> }

\* the strategy names the host is sent; retrieve_chunks is called
\* directly with every name, and with one it does not know
HostChunking == {"document"}
HostRetrieval == {"top-k", "semantic", "hybrid"}
RetrievalNames == {"top-k", "semantic", "hybrid", "mmr", "parent", "other"}

NoRetrieval ==
    [strategy |-> "none", chunks |-> <<>>, query |-> <<>>, k |-> 0,
     enc |-> "none", bm25_throws |-> FALSE, path |-> "none",
     emb_used |-> NoEmbeddings, bm25_used |-> NoIndex, encoded |-> 0,
     out |-> <<>>,
     before |-> [model |-> "None", emb |-> NoEmbeddings, bm25 |-> NoIndex]]

\* what is kept of the retrieval call before the latest one
Brief(call) == [strategy |-> call.strategy, path |-> call.path,
                enc |-> call.enc, n |-> Len(call.chunks)]

HostIdle ==
    /\ document_store = [text |-> <<>>, chunks |-> <<>>,
                         chunking_strategy |-> "", retrieval_strategy |-> "",
                         conversation_history |-> <<>>]
    /\ embedding_model = "None"
    /\ chunk_embeddings = NoEmbeddings
    /\ bm25_index = NoIndex
    /\ last = NoRetrieval
    /\ prev = Brief(NoRetrieval)
    /\ nops = 0
    /\ since_upload = 0
    /\ encodes = 0
    /\ status = 0

\* the three globals of retrieval.py
Globals == [model |-> embedding_model, emb |-> chunk_embeddings,
            bm25 |-> bm25_index]

\* the failures a call may meet: they only matter to the strategies that
\* use the capability
Failures(strategy) ==
    { f \in [enc : {"none", "all"}, bm25_throws : BOOLEAN] :
        /\ strategy \notin {"semantic", "hybrid"} => f.enc = "none"
        /\ strategy # "hybrid" => ~f.bm25_throws }

\* retrieve_chunks(chunks, query, strategy, k) run against the globals
Retrieve(chunks, query, strategy, k, f) ==
    LET env == [st |-> st_installed, bm |-> bm25_installed, enc |-> f.enc,
                bm25_throws |-> f.bm25_throws]
    IN  \E r \in {retrieve_chunks(Globals, env, chunks, query, strategy, k)} :
        /\ embedding_model' = r.m.model
        /\ chunk_embeddings' = r.m.emb
        /\ bm25_index' = r.m.bm25
        /\ encodes' = encodes + r.encoded
        /\ prev' = Brief(last)
        /\ last' = [strategy |-> strategy, chunks |-> chunks, query |-> query,
                    k |-> k, enc |-> f.enc, bm25_throws |-> f.bm25_throws,
                    path |-> r.path, emb_used |-> r.emb_used,
                    bm25_used |-> r.bm25_used, encoded |-> r.encoded,
                    out |-> r.out, before |-> Globals]

\* a caller other than the host calls retrieve_chunks
RetrieveCall ==
    \E chunks \in ChunkSeqs, query \in Queries, strategy \in RetrievalNames,
       k \in {DefaultK} :
      \E f \in Failures(strategy) :
        /\ nops < MaxOps
        /\ nops' = nops + 1
        /\ Retrieve(chunks, query, strategy, k, f)
        /\ UNCHANGED <<document_store, st_installed, bm25_installed, status,
                       since_upload, fxvars, ckvars, rtvars, smvars>>

\* the pre-computation of upload_document: the globals after it and the
\* number of corpus-embedding invocations
Precompute(m, chunks, provider_throws) ==
    IF ~st_installed THEN [m |-> m, encoded |-> 0]
    ELSE IF provider_throws
    THEN \* SentenceTransformer(...) throws, or encode(chunks) does
         [m |-> m, encoded |-> IF m.model = "None" THEN 0 ELSE 1]
    ELSE [m |-> [m EXCEPT !.model = "loaded", !.emb = Encode(chunks)],
          encoded |-> 1]

\* POST /api/upload, while fewer than `limit` operations were performed
UploadDocumentWithin(limit) ==
    \E text \in DocTexts \cup {<<>>}, chunking_strategy \in HostChunking,
       retrieval_strategy \in HostRetrieval, provider_throws \in BOOLEAN :
        /\ nops < limit
        /\ nops' = nops + 1
        /\ retrieval_strategy \notin {"semantic", "hybrid"} => ~provider_throws
        /\ IF text = <<>>
           THEN /\ status' = 400
                /\ UNCHANGED <<document_store, embedding_model,
                               chunk_embeddings, encodes, since_upload>>
           ELSE LET chunks == chunk_document(text, chunking_strategy)
                    p == IF retrieval_strategy \in {"semantic", "hybrid"}
                         THEN Precompute(Globals, chunks, provider_throws)
                         ELSE [m |-> Globals, encoded |-> 0]
                IN  /\ document_store' =
                           [text |-> text, chunks |-> chunks,
                            chunking_strategy |-> chunking_strategy,
                            retrieval_strategy |-> retrieval_strategy,
                            conversation_history |-> <<>>]
                    /\ embedding_model' = p.m.model
                    /\ chunk_embeddings' = p.m.emb
                    /\ encodes' = encodes + p.encoded
                    /\ since_upload' = 0
                    /\ status' = 200
        /\ UNCHANGED <<bm25_index, st_installed, bm25_installed, last, prev,
                       fxvars, ckvars, rtvars, smvars>>

\* POST /api/upload
UploadDocument == UploadDocumentWithin(MaxOps)

\* POST /api/upload-file.  kind is what the file name ends in ("" for no
\* name); text is what the file decodes to, readable tells whether
\* extract_text_from_pdf succeeds.
UploadFileWithin(limit) ==
    \E kind \in {"", "txt", "pdf", "other"}, text \in DocTexts \cup {<<>>},
       readable \in BOOLEAN, chunking_strategy \in HostChunking,
       retrieval_strategy \in HostRetrieval :
        /\ nops < limit
        /\ nops' = nops + 1
        /\ kind # "pdf" => readable
        /\ IF kind \in {"", "other"}
           THEN status' = 400 /\ UNCHANGED <<document_store, since_upload>>
           ELSE IF ~readable
           THEN status' = 500 /\ UNCHANGED <<document_store, since_upload>>
           ELSE /\ document_store' =
                       [document_store EXCEPT
                           !.text = text,
                           !.chunking_strategy = chunking_strategy,
                           !.retrieval_strategy = retrieval_strategy,
                           !.chunks = chunk_document(text, chunking_strategy)]
                /\ since_upload' = 0
                /\ status' = 200
        /\ UNCHANGED <<embedding_model, chunk_embeddings, bm25_index,
                       st_installed, bm25_installed, last, prev, encodes,
                       fxvars, ckvars, rtvars, smvars>>

UploadFile == UploadFileWithin(MaxOps)

\* generate_response(context, query, conversation_history): the generator
\* is outside the engine; its answer is a text made from the query
Response(context, query) == <<"r">> \o query

\* POST /api/query, while fewer than `limit` operations were performed
QueryDocumentWithin(limit) ==
    \E query \in Queries \cup {<<>>} :
      \E f \in Failures(document_store.retrieval_strategy) :
        /\ nops < limit
        /\ nops' = nops + 1
        /\ IF query = <<>> \/ document_store.chunks = <<>>
           THEN /\ status' = 400
                /\ f = [enc |-> "none", bm25_throws |-> FALSE]
                /\ UNCHANGED <<document_store, embedding_model,
                               chunk_embeddings, bm25_index, last, prev,
                               encodes, since_upload>>
           ELSE /\ Retrieve(document_store.chunks, query,
                            document_store.retrieval_strategy, DefaultK, f)
                /\ LET h == document_store.conversation_history
                            \o << [role |-> "user", content |-> query],
                                  [role |-> "assistant",
                                   content |-> Response(last'.out, query)] >>
                   IN  document_store' =
                           [document_store EXCEPT !.conversation_history =
                               PySlice(h, 0 - HistoryLimit, Len(h))]
                /\ since_upload' = since_upload + 1
                /\ status' = 200
        /\ UNCHANGED <<st_installed, bm25_installed, fxvars, ckvars, rtvars, smvars>>

\* POST /api/query
QueryDocument == QueryDocumentWithin(MaxOps)

(***************************************************************************)
(* SpecRetrieve: the retrieval functions called, one after another, on one *)
(* chunk sequence, query and k drawn from bounded sets.                    *)
(***************************************************************************)
RtPool == { <<"a">>, <<"a", " ", "b">>, <<"c">> }

RtChunkSeqs == UNION { [1..n -> RtPool] : n \in 0..MaxChunks }

RtQueries == { <<"a">>, <<"b", " ", "a">> }

\* lambda_param as a fraction: the default, and 1.0
Lambdas == { <<LambdaNum, LambdaDen>>, <<1, 1>> }

NoRtCall == [fn |-> "none", lnum |-> 0, lden |-> 1]

RetrieveIdle ==
    /\ rt_chunks = <<>> /\ rt_query = <<>> /\ rt_k = 0
    /\ rt_call = NoRtCall /\ rt_positions = <<>> /\ rt_out = <<>>
    /\ rt_first = [set |-> FALSE, out |-> <<>>, at |-> 0]
    /\ rt_n = 0

\* retrieve_top_k(chunks, query, k)
CallTopK ==
    /\ rt_call' = [fn |-> "retrieve_top_k", lnum |-> 0, lden |-> 1]
    /\ rt_positions' = TopKPositions(rt_chunks, rt_query, rt_k)
    /\ rt_out' = retrieve_top_k(rt_chunks, rt_query, rt_k)
    /\ rt_first' = IF rt_first.set THEN rt_first
                   ELSE [set |-> TRUE, out |-> rt_out', at |-> rt_n]
    /\ UNCHANGED <<rt_chunks, rt_query, rt_k, rt_n, fxvars, ckvars, hostvars, smvars>>

\* retrieve_mmr(chunks, query, k, lambda_param)
CallMmr ==
    \E l \in Lambdas :
        /\ rt_n < MaxCalls
        /\ rt_n' = rt_n + 1
        /\ rt_call' = [fn |-> "retrieve_mmr", lnum |-> l[1], lden |-> l[2]]
        /\ rt_positions' = IF rt_chunks = <<>> THEN <<>>
                           ELSE MmrSelected(rt_chunks, rt_query, rt_k, l[1], l[2])
        /\ rt_out' = retrieve_mmr(rt_chunks, rt_query, rt_k, l[1], l[2])
        /\ UNCHANGED <<rt_chunks, rt_query, rt_k, rt_first, fxvars, ckvars,
                       hostvars, smvars>>

\* retrieve_parent_document(chunks, query, k)
CallParentDocument ==
    /\ rt_n < MaxCalls
    /\ rt_n' = rt_n + 1
    /\ rt_call' = [fn |-> "retrieve_parent_document", lnum |-> 0, lden |-> 1]
    /\ rt_positions' = TopKPositions(rt_chunks, rt_query, rt_k)
    /\ rt_out' = retrieve_parent_document(rt_chunks, rt_query, rt_k)
    /\ UNCHANGED <<rt_chunks, rt_query, rt_k, rt_first, fxvars, ckvars, hostvars, smvars>>

\* retrieve_semantic / retrieve_hybrid(chunks, query, k), the capabilities
\* working: the calls that write the globals
CallCached ==
    \E strategy \in {"semantic", "hybrid"} :
        /\ rt_n < MaxCalls
        /\ rt_n' = rt_n + 1
        /\ Retrieve(rt_chunks, rt_query, strategy, rt_k,
                    [enc |-> "none", bm25_throws |-> FALSE])
        /\ rt_call' = [fn |-> last'.path, lnum |-> 0, lden |-> 1]
        /\ rt_positions' = <<>>
        /\ rt_out' = last'.out
        /\ UNCHANGED <<rt_chunks, rt_query, rt_k, rt_first, document_store,
                       st_installed, bm25_installed, nops, status,
                       since_upload, fxvars,
                       ckvars, smvars>>

(***************************************************************************)
(* SpecSemantic: chunk_semantic followed through its grouping loop, on a   *)
(* text, parameters and similarities drawn from bounded sets.              *)
(***************************************************************************)
SemTokens == { <<"a">>, <<".">>, <<" ">> }

SemTexts ==
    { Flatten(ts) : ts \in UNION { [1..n -> SemTokens] : n \in 0..MaxSemTokens } }

\* a similarity below the threshold and one above it
SimLevels == {25, 75}

\* the similarities cosine_similarity may give for the sentences of a text
SimilaritiesOf(text) ==
    LET n == Len(split_into_sentences(text))
    IN  IF n <= 1 THEN {<<>>} ELSE [1..(n - 1) -> SimLevels]

SemanticArgs ==
    [text : SemTexts, similarity_threshold : {DefaultThreshold},
     min_chunk_size : 0..MaxParam, max_chunk_size : {MaxParam, 2 * MaxParam}]

SemanticIdle ==
    /\ sm_pc = "idle"
    /\ sm_args = [text |-> <<>>, similarity_threshold |-> DefaultThreshold,
                  min_chunk_size |-> 0, max_chunk_size |-> 0]
    /\ sm_provider = "ok" /\ sm_sims = <<>> /\ sm_sentences = <<>>
    /\ sm_i = 0 /\ sm_chunks = <<>> /\ sm_current_chunk = <<>>
    /\ sm_current_size = 0 /\ sm_sizes = <<>> /\ sm_result = <<>>

\* the call up to the loop: the imports and the model load, the sentences,
\* their embeddings and similarities, the first sentence in the buffer.
\* A missing or throwing provider ends the call in chunk_recursive(text).
SemanticCall ==
    \E provider \in {"ok", "missing", "throws"} :
        /\ sm_pc = "idle"
        /\ sm_provider' = provider
        /\ LET sentences == split_into_sentences(sm_args.text)
           IN  IF provider # "ok"
               THEN /\ sm_pc' = "done"
                    /\ sm_result' = chunk_recursive(sm_args.text, DefaultMaxChunkSize)
                    /\ UNCHANGED <<sm_sentences, sm_i, sm_chunks,
                                   sm_current_chunk, sm_current_size>>
               ELSE IF Len(sentences) <= 1
               THEN /\ sm_pc' = "done"
                    /\ sm_sentences' = sentences
                    /\ sm_result' = <<sm_args.text>>
                    /\ UNCHANGED <<sm_i, sm_chunks, sm_current_chunk,
                                   sm_current_size>>
               ELSE /\ sm_pc' = "loop"
                    /\ sm_sentences' = sentences
                    /\ sm_i' = 1
                    /\ sm_chunks' = <<>>
                    /\ sm_current_chunk' = <<sentences[1]>>
                    /\ sm_current_size' = Len(sentences[1])
                    /\ UNCHANGED sm_result
        /\ UNCHANGED <<sm_args, sm_sims, sm_sizes, fxvars, ckvars, hostvars, rtvars>>

\* one iteration of `for i, (sentence, similarity) in enumerate(zip(...))`
SemanticIterate ==
    /\ sm_pc = "loop"
    /\ sm_i <= Len(sm_sims)
    /\ LET sentence == sm_sentences[sm_i + 1]
           similarity == sm_sims[sm_i]
           sentence_len == Len(sentence)
       IN  IF ShouldStartChunk(similarity, sm_args.similarity_threshold,
                               sm_current_size, sentence_len,
                               sm_args.min_chunk_size, sm_args.max_chunk_size)
           THEN /\ sm_chunks' = Append(sm_chunks, Join(<<" ">>, sm_current_chunk))
                /\ sm_sizes' = Append(sm_sizes, sm_current_size)
                /\ sm_current_chunk' = <<sentence>>
                /\ sm_current_size' = sentence_len
           ELSE /\ sm_current_chunk' = Append(sm_current_chunk, sentence)
                /\ sm_current_size' = sm_current_size + sentence_len
                /\ UNCHANGED <<sm_chunks, sm_sizes>>
    /\ sm_i' = sm_i + 1
    /\ UNCHANGED <<sm_pc, sm_args, sm_provider, sm_sims, sm_sentences, sm_result,
                   fxvars, ckvars, hostvars, rtvars>>

\* the loop is over: the last chunk is added and the chunks that are not
\* blank are returned
SemanticReturn ==
    /\ sm_pc = "loop"
    /\ sm_i > Len(sm_sims)
    /\ sm_pc' = "done"
    /\ IF sm_current_chunk # <<>>
       THEN /\ sm_chunks' = Append(sm_chunks, Join(<<" ">>, sm_current_chunk))
            /\ sm_sizes' = Append(sm_sizes, sm_current_size)
       ELSE UNCHANGED <<sm_chunks, sm_sizes>>
    /\ sm_result' = DropBlank(sm_chunks')
    /\ UNCHANGED <<sm_args, sm_provider, sm_sims, sm_sentences, sm_i,
                   sm_current_chunk, sm_current_size, fxvars, ckvars, hostvars,
                   rtvars>>

(***************************************************************************)
(* The specifications.                                                     *)
(***************************************************************************)
Init ==
    /\ HostIdle
    /\ st_installed \in BOOLEAN
    /\ bm25_installed \in BOOLEAN
    /\ FixedIdle
    /\ ChunkIdle
    /\ RetrieveIdle
    /\ SemanticIdle

Next == RetrieveCall \/ UploadDocument \/ UploadFile \/ QueryDocument

Spec == Init /\ [][Next]_vars

InitChunk ==
    /\ ck_text \in Texts
    /\ ck_call = NoCall
    /\ ck_result = <<>>
    /\ FixedIdle
    /\ HostIdle
    /\ RetrieveIdle
    /\ SemanticIdle
    /\ st_installed = TRUE
    /\ bm25_installed = TRUE

NextChunk ==
    \/ CallChunkDocument
    \/ CallChunkFixedSize
    \/ CallChunkRecursive
    \/ CallChunkDocumentBased
    \/ CallChunkAgentic

SpecChunk == InitChunk /\ [][NextChunk]_vars

InitFixed ==
    /\ FixedIdle
    /\ ChunkIdle
    /\ HostIdle
    /\ RetrieveIdle
    /\ SemanticIdle
    /\ st_installed = TRUE
    /\ bm25_installed = TRUE

NextFixed == FixedCall \/ FixedCallDefault \/ FixedIterate \/ FixedReturn

SpecFixed == InitFixed /\ [][NextFixed]_vars

\* a call that has started runs on: the loop takes its next iteration, and
\* returns when its condition fails
SpecFixedFair == SpecFixed /\ WF_vars(FixedIterate) /\ WF_vars(FixedReturn)

InitRetrieve ==
    /\ rt_chunks \in RtChunkSeqs
    /\ rt_query \in RtQueries
    /\ rt_k \in 0..MaxK
    /\ rt_call = NoRtCall /\ rt_positions = <<>> /\ rt_out = <<>>
    /\ rt_first = [set |-> FALSE, out |-> <<>>, at |-> 0]
    /\ rt_n = 0
    /\ FixedIdle
    /\ ChunkIdle
    /\ HostIdle
    /\ SemanticIdle
    /\ st_installed = TRUE
    /\ bm25_installed = TRUE

NextRetrieve == CallTopK \/ CallMmr \/ CallParentDocument \/ CallCached

SpecRetrieve == InitRetrieve /\ [][NextRetrieve]_vars

\* the host alone, its three handlers called MaxHostOps times
HostUploadDocument == UploadDocumentWithin(MaxHostOps)

HostUploadFile == UploadFileWithin(MaxHostOps)

HostQueryDocument == QueryDocumentWithin(MaxHostOps)

NextHost == HostUploadDocument \/ HostUploadFile \/ HostQueryDocument

SpecHost == Init /\ [][NextHost]_vars

InitSemantic ==
    /\ sm_args \in SemanticArgs
    /\ sm_sims \in SimilaritiesOf(sm_args.text)
    /\ sm_pc = "idle" /\ sm_provider = "ok" /\ sm_sentences = <<>>
    /\ sm_i = 0 /\ sm_chunks = <<>> /\ sm_current_chunk = <<>>
    /\ sm_current_size = 0 /\ sm_sizes = <<>> /\ sm_result = <<>>
    /\ FixedIdle
    /\ ChunkIdle
    /\ HostIdle
    /\ RetrieveIdle
    /\ st_installed = TRUE
    /\ bm25_installed = TRUE

NextSemantic == SemanticCall \/ SemanticIterate \/ SemanticReturn

SpecSemantic == InitSemantic /\ [][NextSemantic]_vars

(***************************************************************************)
(* Properties of chunk_fixed_size (SpecFixed).                             *)
(***************************************************************************)
\* C1: fixed-size chunking called with overlap >= chunk_size on a non-empty
\* text is rejected with a configuration error: the call ends in an error
\* outcome and never enters the loop.
C1_NonPositiveStrideRejected ==
    (fx_pc # "idle" /\ fx_overlap >= fx_size /\ fx_text # <<>>)
        => fx_pc = "error"

\* what the code does instead: with a non-positive stride the loop
\* condition never fails, so the call never returns
NonPositiveStrideNeverReturns ==
    (fx_overlap >= fx_size /\ fx_text # <<>>) => fx_pc # "done"

\* the start offset of the j-th window (j from 1)
WindowStart(j) == (j - 1) * (fx_size - fx_overlap)

\* the windows of a call with a positive stride: the j-th starts at
\* (j - 1) * (chunk_size - overlap), inside the text, and spans at most
\* chunk_size characters; after the return the next start is at or past the
\* end of the text and the result is the windows that are not blank
WindowsInPlace ==
    (fx_pc \in {"loop", "done"} /\ fx_overlap < fx_size)
        => /\ fx_i = WindowStart(Len(fx_chunks) + 1)
           /\ \A j \in 1..Len(fx_chunks) :
                 /\ WindowStart(j) < Len(fx_text)
                 /\ Len(fx_chunks[j]) <= fx_size
                 /\ fx_chunks[j] =
                        SubSeq(fx_text, WindowStart(j) + 1,
                               Min(WindowStart(j) + fx_size, Len(fx_text)))
           /\ fx_pc = "done"
                => /\ WindowStart(Len(fx_chunks) + 1) >= Len(fx_text)
                   /\ fx_result = SelectSeq(fx_chunks,
                                            LAMBDA c : \E p \in 1..Len(c) :
                                                          ~IsSpace(c[p]))

\* chunk_size=1000 and overlap=200 on a text of DocLen characters give 4
\* chunks, starting at 0, 800, 1600 and 2400
DefaultWindows ==
    ( /\ fx_pc = "done" /\ Len(fx_text) = DocLen
      /\ fx_size = DefaultChunkSize /\ fx_overlap = DefaultOverlap )
        => /\ Len(fx_result) = 4
           /\ \A j \in 1..4 :
                 fx_result[j] = SubSeq(fx_text, 800 * (j - 1) + 1,
                                       Min(800 * (j - 1) + 1000, DocLen))

\* C13: fixed-size chunking with overlap < chunk_size terminates; its i-th
\* window starts at i * (chunk_size - overlap) and spans at most chunk_size
\* characters, windows being produced until the start reaches the text
\* length; chunk_size=1000, overlap=200 on a 2500-character text gives 4
\* chunks starting at 0, 800, 1600 and 2400.
C13_FixedWindows ==
    /\ [](WindowsInPlace /\ DefaultWindows)
    /\ (fx_pc = "loop" /\ fx_overlap < fx_size) ~> (fx_pc = "done")

C13_Witness ==
    /\ fx_pc = "done" /\ Len(fx_text) = DocLen
    /\ fx_size = DefaultChunkSize /\ fx_overlap = DefaultOverlap
    /\ Len(fx_result) = 4
    /\ Len(fx_result[4]) = DocLen - 2400

(***************************************************************************)
(* Properties of the caches of retrieval.py (Spec).                        *)
(***************************************************************************)
\* the capabilities the latest retrieval call met
LastEnv == [st |-> st_installed, bm |-> bm25_installed, enc |-> last.enc,
            bm25_throws |-> last.bm25_throws]

\* C2: whenever cached chunk embeddings are used to score a query against a
\* chunk sequence (by the semantic or the hybrid scoring), they were
\* computed from exactly that chunk sequence.
C2_EmbeddingsMatchChunks ==
    last.path \in {"semantic", "hybrid"}
        => last.emb_used = Encode(last.chunks)

\* C3: semantic retrieval called on a chunk sequence and then on a chunk
\* sequence of a different length, the embedding provider working, embeds
\* the corpus once per call (2 invocations in all), and the second call
\* scores against the vectors of the second sequence.
C3_SecondCallReencodes ==
    ( /\ nops = 2
      /\ prev.strategy = "semantic" /\ last.strategy = "semantic"
      /\ st_installed /\ prev.enc = "none" /\ last.enc = "none"
      /\ prev.n # Len(last.chunks) )
        => /\ encodes = 2
           /\ last.encoded = 1
           /\ chunk_embeddings = Encode(last.chunks)
           /\ last.chunks # <<>>
                => /\ last.path = "semantic"
                   /\ last.emb_used = Encode(last.chunks)

C3_Witness ==
    /\ nops = 2
    /\ prev.strategy = "semantic" /\ last.strategy = "semantic"
    /\ st_installed /\ prev.enc = "none" /\ last.enc = "none"
    /\ prev.path = "semantic" /\ prev.n = 1
    /\ Len(last.chunks) = 2
    /\ last.path = "semantic"
    /\ encodes = 2

\* C4: in every hybrid call the semantic scores and the lexical scores are
\* both computed over the chunk sequence passed to that call: the cached
\* embeddings and the cached BM25 index are those of that sequence.
C4_HybridCachesMatchChunks ==
    last.path = "hybrid"
        => /\ last.emb_used = Encode(last.chunks)
           /\ last.bm25_used = BuildIndex(last.chunks)

EmptyChunksEmptyContext ==
    (last.strategy # "none" /\ last.chunks = <<>>) => last.out = <<>>

(***************************************************************************)
(* Properties of the chunking functions (SpecChunk).                       *)
(***************************************************************************)
\* the characters of s that are not whitespace
NonSpace(s) == SelectSeq(s, LAMBDA c : ~IsSpace(c))

RECURSIVE IsSubsequence(_, _)
\* the characters of a occur in b, in the order of a
IsSubsequence(a, b) ==
    IF a = <<>> THEN TRUE
    ELSE IF b = <<>> THEN FALSE
    ELSE IF Head(a) = Head(b) THEN IsSubsequence(Tail(a), Tail(b))
    ELSE IsSubsequence(a, Tail(b))

\* the call splits on the explicit delimiter, which is not content
SplitsOnDelimiter(call, text) ==
    /\ \/ call.fn = "chunk_document_based"
       \/ call.fn = "chunk_document" /\ call.strategy = "document"
    /\ Contains(text, Delimiter)

\* the content of the document a call has to cover
Content(call, text) ==
    IF SplitsOnDelimiter(call, text)
    THEN NonSpace(Flatten(Split(text, Delimiter)))
    ELSE NonSpace(text)

\* C5: for every text and every chunking strategy the returned chunks,
\* taken in order, cover the document: every non-whitespace character of
\* the document appears in some chunk, in document order.
C5_ChunksCoverDocument ==
    ck_call.fn # "none"
        => IsSubsequence(Content(ck_call, ck_text), NonSpace(Flatten(ck_result)))

\* a piece that holds none of the separators
Atomic(chunk) ==
    \A j \in 1..Len(Separators) : ~Contains(chunk, Separators[j])

\* C6: recursive chunking never returns a chunk longer than max_chunk_size,
\* except a chunk that is a single atomic piece holding none of the
\* separators.
C6_OversizeOnlyAtomic ==
    ck_call.fn = "chunk_recursive"
        => \A i \in 1..Len(ck_result) :
              Len(ck_result[i]) > ck_call.size => Atomic(ck_result[i])

C6_Witness ==
    /\ ck_call.fn = "chunk_recursive"
    /\ \E i, j \in 1..Len(ck_result) :
          /\ Len(ck_result[i]) > ck_call.size
          /\ Len(ck_result[j]) <= ck_call.size
    /\ \E j \in 1..Len(Separators) : Contains(ck_text, Separators[j])

\* C7: for every text and every strategy name handed to the dispatcher, no
\* returned chunk is empty after trimming whitespace.
C7_NoBlankChunk ==
    ck_call.fn = "chunk_document"
        => \A i \in 1..Len(ck_result) : Strip(ck_result[i]) # <<>>

\* C9: chunking through the entry point with strategy 'agentic' gives, for
\* every text, the result of recursive chunking of the same text.
C9_AgenticIsRecursive ==
    (ck_call.fn = "chunk_document" /\ ck_call.strategy = "agentic")
        => ck_result = chunk_recursive(ck_text, DefaultMaxChunkSize)

\* C10: empty input yields an empty result: chunking the empty document
\* returns no chunk under every chunking strategy name, and retrieving over
\* no chunks returns the empty context under every retrieval strategy.
C10_EmptyInEmptyOut ==
    /\ (ck_call.fn = "chunk_document" /\ ck_text = <<>>) => ck_result = <<>>
    /\ (last.strategy # "none" /\ last.chunks = <<>>) => last.out = <<>>

(***************************************************************************)
(* Properties of the retrieval functions (SpecRetrieve).                   *)
(***************************************************************************)
\* the lexical overlap score of the chunk at position i
RtScore(i) == OverlapScore(rt_query, rt_chunks[i])

\* position i ranks before position j: a higher score, or the same score
\* and an earlier position
RanksBefore(i, j) ==
    RtScore(i) > RtScore(j) \/ (RtScore(i) = RtScore(j) /\ i < j)

\* the positions a call selected
Selected == { rt_positions[p] : p \in 1..Len(rt_positions) }

\* C11: Top-K over n chunks returns exactly min(k, n) chunks, ordered by
\* overlap score descending with equal scores in original chunk order, and
\* a call returns what the first call with the same chunks, query and k
\* returned, whatever retrieval calls happened in between.
C11_TopKStableOrder ==
    rt_call.fn = "retrieve_top_k"
        => /\ Len(rt_positions) = Min(rt_k, Len(rt_chunks))
           /\ Selected \subseteq 1..Len(rt_chunks)
           /\ \A p, q \in 1..Len(rt_positions) :
                 p < q => RanksBefore(rt_positions[p], rt_positions[q])
           /\ \A i \in (1..Len(rt_chunks)) \ Selected :
                 \A j \in Selected : RanksBefore(j, i)
           /\ rt_out = Join(ContextSep,
                            [p \in 1..Len(rt_positions) |->
                                rt_chunks[rt_positions[p]]])
           /\ rt_out = rt_first.out

C11_Witness ==
    /\ rt_call.fn = "retrieve_top_k"
    /\ rt_first.at = 0 /\ rt_n = 1
    /\ 2 <= rt_k /\ rt_k < Len(rt_chunks)
    /\ RtScore(rt_positions[1]) = RtScore(rt_positions[2])

\* the positions retrieve_top_k selects for the same chunks, query and k
TopKSelected ==
    LET top == TopKPositions(rt_chunks, rt_query, rt_k)
    IN  { top[p] : p \in 1..Len(top) }

\* C12: for every chunk sequence, query and k, MMR with lambda = 1.0
\* selects the same set of chunks as Top-K with the same chunks, query and k.
C12_MmrLambdaOneIsTopK ==
    (rt_call.fn = "retrieve_mmr" /\ rt_call.lnum = rt_call.lden)
        => Selected = TopKSelected

\* for k >= 1 the two sets are the same
MmrLambdaOneIsTopKFromOne ==
    (rt_call.fn = "retrieve_mmr" /\ rt_call.lnum = rt_call.lden /\ rt_k >= 1)
        => Selected = TopKSelected

(***************************************************************************)
(* Properties of chunk_document_based (SpecChunk).                         *)
(***************************************************************************)
\* the call is a document-structure chunking of ck_text
DocumentBasedCall ==
    \/ ck_call.fn = "chunk_document_based"
    \/ ck_call.fn = "chunk_document" /\ ck_call.strategy = "document"

\* the trimmed non-empty pieces of splitting ck_text on sep
TrimmedPieces(sep) ==
    LET pieces == Split(ck_text, sep)
        kept == SelectSeq(pieces, LAMBDA c : \E p \in 1..Len(c) : ~IsSpace(c[p]))
    IN  [i \in 1..Len(kept) |-> Strip(kept[i])]

\* the heading lines of ck_text
HeadingCount == Cardinality({p \in 1..Len(ck_text) : HeaderEnd(ck_text, p) > 0})

\* the chunks of ck_result that begin with a heading
HeadedChunks == {i \in 1..Len(ck_result) : Head(ck_result[i]) = "#"}

\* C14: document-structure chunking tries its branches in strict priority:
\* with the delimiter '---' in the text the result is exactly the trimmed
\* non-empty pieces of splitting on it, headings present or not; with no
\* delimiter and a heading line, every heading starts a chunk; with neither,
\* the result is the trimmed non-empty pieces of splitting on paragraph
\* breaks.
C14_BranchPriority ==
    DocumentBasedCall
        => IF Contains(ck_text, Delimiter)
           THEN ck_result = TrimmedPieces(Delimiter)
           ELSE IF HasHeader(ck_text)
           THEN /\ Cardinality(HeadedChunks) = HeadingCount
                /\ (2..Len(ck_result)) \subseteq HeadedChunks
                /\ NonSpace(Flatten(ck_result)) = NonSpace(ck_text)
           ELSE ck_result = TrimmedPieces(<<NL, NL>>)

C14_Witness ==
    /\ DocumentBasedCall
    /\ Contains(ck_text, Delimiter) /\ HasHeader(ck_text)
    /\ Len(ck_result) = 2
    /\ \E i \in 1..2 : Contains(ck_result[i], <<"#">>)

(***************************************************************************)
(* Properties of retrieve_parent_document and retrieve_mmr (SpecRetrieve). *)
(***************************************************************************)
\* the chunks at the positions lo..hi that exist, joined by a space
Neighbourhood(lo, hi) ==
    LET from == Max(lo, 1)
        to == Min(hi, Len(rt_chunks))
    IN  Join(<<" ">>, [p \in 1..(to - from + 1) |-> rt_chunks[from + p - 1]])

\* C15: parent-document retrieval ranks chunks as Top-K does and returns,
\* for each of the top-k positions i, the chunks i-1, i and i+1 that exist,
\* concatenated in original order.
C15_ParentDocumentContext ==
    rt_call.fn = "retrieve_parent_document"
        => /\ Len(rt_positions) = Min(rt_k, Len(rt_chunks))
           /\ \A p, q \in 1..Len(rt_positions) :
                 p < q => RanksBefore(rt_positions[p], rt_positions[q])
           /\ \A i \in (1..Len(rt_chunks)) \ Selected :
                 \A j \in Selected : RanksBefore(j, i)
           /\ rt_out = Join(ContextSep,
                            [p \in 1..Len(rt_positions) |->
                                Neighbourhood(rt_positions[p] - 1,
                                              rt_positions[p] + 1)])

C15_Witness ==
    /\ rt_call.fn = "retrieve_parent_document"
    /\ Len(rt_chunks) = 3 /\ Len(rt_positions) = 3
    /\ rt_positions[1] = 2
    /\ rt_out # retrieve_top_k(rt_chunks, rt_query, rt_k)

\* the selection of an MMR call, whatever k: as many chunks as asked for or
\* as there are, no position twice, the first a chunk of highest lexical
\* relevance and the earliest such
MmrSelection(n_selected) ==
    /\ Len(rt_positions) = n_selected
    /\ Selected \subseteq 1..Len(rt_chunks)
    /\ Cardinality(Selected) = Len(rt_positions)
    /\ rt_positions # <<>>
         => \A i \in 1..Len(rt_chunks) :
               i # rt_positions[1] => RanksBefore(rt_positions[1], i)
    /\ rt_out = Join(ContextSep, [p \in 1..Len(rt_positions) |->
                                     rt_chunks[rt_positions[p]]])

\* C16: MMR over n chunks returns exactly min(k, n) chunks for every k >= 0,
\* each from a distinct position, the first a chunk of highest lexical
\* relevance (the earliest such on ties).
C16_MmrSelectsMinKN ==
    rt_call.fn = "retrieve_mmr" => MmrSelection(Min(rt_k, Len(rt_chunks)))

\* what the code returns: at least one chunk whenever there is one
MmrSelectsAtLeastOne ==
    rt_call.fn = "retrieve_mmr"
        => MmrSelection(Min(Max(rt_k, 1), Len(rt_chunks)))

\* a step of the grouping loop that closes the chunk in progress
ChunkClosedInLoop ==
    /\ sm_pc = "loop" /\ sm_pc' = "loop"
    /\ Len(sm_chunks') = Len(sm_chunks) + 1

\* the similarity and the sentence that the step at hand looks at
SplitIsDue ==
    /\ \/ sm_sims[sm_i] < sm_args.similarity_threshold
       \/ sm_current_size + Len(sm_sentences[sm_i + 1]) > sm_args.max_chunk_size
    /\ sm_current_size >= sm_args.min_chunk_size

\* the call has returned from the grouping loop
GroupedReturn ==
    sm_pc = "done" /\ sm_provider = "ok" /\ Len(sm_sentences) > 1

\* C17: with the embedding provider available, semantic chunking starts a
\* new chunk only when (the similarity to the previous sentence is below the
\* threshold or the sentence would take the chunk over max_chunk_size) and
\* the accumulated size has reached min_chunk_size; so every returned chunk
\* but the last has an accumulated sentence size of at least min_chunk_size.
C17_SplitNeedsMinSize ==
    /\ [][ChunkClosedInLoop => SplitIsDue]_vars
    /\ [](GroupedReturn =>
            /\ Len(sm_result) = Len(sm_sizes)
            /\ \A j \in 1..(Len(sm_sizes) - 1) :
                   sm_sizes[j] >= sm_args.min_chunk_size)

\* a call that returned two chunks or more, the last one below the minimum
C17_Witness ==
    /\ GroupedReturn
    /\ Len(sm_result) >= 2
    /\ sm_sizes[Len(sm_sizes)] < sm_args.min_chunk_size
    /\ sm_args.min_chunk_size > 1

\* C18: an upload through either operation clears the stored conversation
\* history, so the stored history holds only exchanges made since the latest
\* upload, and at most the last HistoryLimit messages.
C18_HistorySinceLatestUpload ==
    /\ Len(document_store.conversation_history) <= 2 * since_upload
    /\ Len(document_store.conversation_history) <= HistoryLimit

\* what the code keeps: the history is cleared by the text upload alone
HistoryWithinLimit ==
    /\ Len(document_store.conversation_history) <= HistoryLimit
    /\ Len(document_store.conversation_history) >= 2 * since_upload

====
